---- MODULE Spec2Model ----
(***************************************************************************)
(* Receipt data augmentation of pos_multi_company_cash_control:            *)
(*   static/src/js/pos_order_extension.js  two patches of PosOrder         *)
(*       (the order_company_data variant, then the company_data variant)   *)
(*   static/src/js/pos_receipt_patch.js    one patch of PosStore           *)
(* JavaScript values are tuples of strings: <<type, payload...>>.          *)
(***************************************************************************)
EXTENDS Naturals, Sequences, FiniteSets, TLC

\* Largest number of export_for_printing / getReceiptHeaderData calls followed.
MaxCalls == 2

----------------------------------------------------------------------------
\* JavaScript values

Undefined == <<"undefined">>
Null == <<"null">>
True == <<"boolean", "true">>
False == <<"boolean", "false">>
Num0 == <<"number", "0">>
EmptyStr == <<"string", "">>
QR123 == <<"string", "QR123">>
\* company records: <<"object", name, vat>>, "-" for a property the object lacks
OldCo == <<"object", "Old Co", "VAT-1">>
NewCo == <<"object", "New Co", "-">>
OtherCo == <<"object", "Other Co", "VAT-2">>

\* ToBoolean
Truthy(v) ==
    \/ v[1] = "object"
    \/ v[1] = "boolean" /\ v[2] = "true"
    \/ v[1] = "string" /\ v[2] # ""
    \/ v[1] = "number" /\ v[2] # "0"

\* a || b
Or(a, b) == IF Truthy(a) THEN a ELSE b

\* a ?? b
Coalesce(a, b) == IF a = Undefined \/ a = Null THEN b ELSE a

\* a !== undefined ? a : b
IfDefined(a, b) == IF a # Undefined THEN a ELSE b

IsBoolean(v) == v[1] = "boolean"

----------------------------------------------------------------------------
\* Inputs supplied by the host

\* which of the two PosOrder patches of pos_order_extension.js are installed:
\* the order_company_data one, the company_data one, or both in file order
Variants == {"order_company_data", "company_data", "both"}

\* the raw value bag handed to setup
RawVals ==
    [is_fiscal_order : {Undefined, Null, True, False, Num0},
     non_fiscal_qr_data : {Undefined, Null, False, EmptyStr, QR123},
     company_data : {Undefined, False, NewCo},
     order_company_data : {Undefined, False, OtherCo}]

\* the order before any patch's setup has assigned a field
NewOrder ==
    [is_fiscal_order |-> Undefined, non_fiscal_qr_data |-> Undefined,
     company_data |-> Undefined, order_company_data |-> Undefined]

NoData ==
    [kind |-> "undefined", company |-> Undefined, cashier |-> Undefined,
     is_fiscal_order |-> Undefined, non_fiscal_qr_data |-> Undefined]

\* header data as the host's getReceiptHeaderData builds it
HostHeaderData ==
    {[kind |-> "object", company |-> c, cashier |-> <<"string", "Ann">>,
      is_fiscal_order |-> Undefined, non_fiscal_qr_data |-> Undefined] :
        c \in {OldCo, Undefined}}

\* the export as the host's export_for_printing builds it; headerData may be missing
HostExports ==
    [headerData : HostHeaderData \cup {NoData, [NoData EXCEPT !.kind = "null"]},
     name : {<<"string", "Order 0001">>},
     is_fiscal_order : {Undefined},
     non_fiscal_qr_data : {Undefined}]

NoExport ==
    [headerData |-> NoData, name |-> Undefined,
     is_fiscal_order |-> Undefined, non_fiscal_qr_data |-> Undefined]

\* the order argument of getReceiptHeaderData
OrderArgs == {"undefined", "null", "order"}

----------------------------------------------------------------------------
\* pos_order_extension.js, first patch (order_company_data)

\* variant of setup_A: loose inequality, vals.is_fiscal_order != undefined
setup_A_LooseCheck(this, vals) ==
    [this EXCEPT
        !.is_fiscal_order = Coalesce(vals.is_fiscal_order, True),
        !.non_fiscal_qr_data = Or(vals.non_fiscal_qr_data, False),
        !.order_company_data = Or(vals.order_company_data, False)]

setup_A(this, vals) ==
    [this EXCEPT
        !.is_fiscal_order = IfDefined(vals.is_fiscal_order, True),
        !.non_fiscal_qr_data = Or(vals.non_fiscal_qr_data, False),
        !.order_company_data = Or(vals.order_company_data, False)]

\* result.headerData.company = v; a TypeError when headerData is not an object
AssignCompany(c, v) ==
    IF c.value.headerData.kind = "object"
    THEN [c EXCEPT !.value.headerData.company = v]
    ELSE [c EXCEPT !.threw = TRUE]

\* variant of export_for_printing_A: the fiscal flag is derived from the QR
\* payload found on the export, result.is_fiscal_order = !result.non_fiscal_qr_data
export_for_printing_A_FromResult(this, c) ==
    IF c.threw THEN c
    ELSE LET r1 == IF Truthy(this.order_company_data) /\ c.value.headerData.kind = "object"
                   THEN AssignCompany(c, this.order_company_data)
                   ELSE c
         IN IF r1.threw THEN r1
            ELSE [r1 EXCEPT !.value.is_fiscal_order =
                                IF Truthy(c.value.non_fiscal_qr_data) THEN False ELSE True,
                            !.value.non_fiscal_qr_data = this.non_fiscal_qr_data]

\* c is the completion of super.export_for_printing: [threw, value]
export_for_printing_A(this, c) ==
    IF c.threw THEN c
    ELSE LET r1 == IF Truthy(this.order_company_data) /\ c.value.headerData.kind = "object"
                   THEN AssignCompany(c, this.order_company_data)
                   ELSE c
         IN IF r1.threw THEN r1
            ELSE [r1 EXCEPT !.value.is_fiscal_order = this.is_fiscal_order,
                            !.value.non_fiscal_qr_data = this.non_fiscal_qr_data]

----------------------------------------------------------------------------
\* pos_order_extension.js, second patch (company_data)

\* variant of setup_B: the default of is_fiscal_order is false
setup_B_DefaultFalse(this, vals) ==
    [this EXCEPT
        !.company_data = Or(vals.company_data, False),
        !.is_fiscal_order = Coalesce(vals.is_fiscal_order, False),
        !.non_fiscal_qr_data = Or(vals.non_fiscal_qr_data, False)]

\* variant of setup_B: vals.is_fiscal_order || true
setup_B_OrDefault(this, vals) ==
    [this EXCEPT
        !.company_data = Or(vals.company_data, False),
        !.is_fiscal_order = Or(vals.is_fiscal_order, True),
        !.non_fiscal_qr_data = Or(vals.non_fiscal_qr_data, False)]

setup_B(this, vals) ==
    [this EXCEPT
        !.company_data = Or(vals.company_data, False),
        !.is_fiscal_order = Coalesce(vals.is_fiscal_order, True),
        !.non_fiscal_qr_data = Or(vals.non_fiscal_qr_data, False)]

\* Object.assign({}, old, new): properties new lacks are taken from old
MergeCompany(old, new) ==
    IF old[1] = "object" /\ new[1] = "object"
    THEN <<"object", IF new[2] = "-" THEN old[2] ELSE new[2],
                     IF new[3] = "-" THEN old[3] ELSE new[3]>>
    ELSE new

\* variant of export_for_printing_B: company_data is merged into the host company
export_for_printing_B_Merge(this, c) ==
    IF c.threw THEN c
    ELSE LET r1 == IF Truthy(this.company_data) /\ c.value.headerData.kind = "object"
                   THEN AssignCompany(c, MergeCompany(c.value.headerData.company, this.company_data))
                   ELSE c
         IN IF r1.threw THEN r1
            ELSE [r1 EXCEPT !.value.is_fiscal_order = this.is_fiscal_order,
                            !.value.non_fiscal_qr_data = this.non_fiscal_qr_data]

\* variant of export_for_printing_B: company is assigned without testing this.company_data
export_for_printing_B_NoOverrideCheck(this, c) ==
    IF c.threw THEN c
    ELSE LET r1 == IF c.value.headerData.kind = "object"
                   THEN AssignCompany(c, this.company_data)
                   ELSE c
         IN IF r1.threw THEN r1
            ELSE [r1 EXCEPT !.value.is_fiscal_order = this.is_fiscal_order,
                            !.value.non_fiscal_qr_data = this.non_fiscal_qr_data]

\* variant of export_for_printing_B: result.headerData = {company: this.company_data}
export_for_printing_B_FreshHeader(this, c) ==
    IF c.threw THEN c
    ELSE LET r1 == IF Truthy(this.company_data) /\ c.value.headerData.kind = "object"
                   THEN [c EXCEPT !.value.headerData = [NoData EXCEPT !.kind = "object", !.company = this.company_data]]
                   ELSE c
         IN IF r1.threw THEN r1
            ELSE [r1 EXCEPT !.value.is_fiscal_order = this.is_fiscal_order,
                            !.value.non_fiscal_qr_data = this.non_fiscal_qr_data]

\* variant of export_for_printing_B: company is assigned without testing result.headerData
export_for_printing_B_NoHeaderCheck(this, c) ==
    IF c.threw THEN c
    ELSE LET r1 == IF Truthy(this.company_data)
                   THEN AssignCompany(c, this.company_data)
                   ELSE c
         IN IF r1.threw THEN r1
            ELSE [r1 EXCEPT !.value.is_fiscal_order = this.is_fiscal_order,
                            !.value.non_fiscal_qr_data = this.non_fiscal_qr_data]

export_for_printing_B(this, c) ==
    IF c.threw THEN c
    ELSE LET r1 == IF Truthy(this.company_data) /\ c.value.headerData.kind = "object"
                   THEN AssignCompany(c, this.company_data)
                   ELSE c
         IN IF r1.threw THEN r1
            ELSE [r1 EXCEPT !.value.is_fiscal_order = this.is_fiscal_order,
                            !.value.non_fiscal_qr_data = this.non_fiscal_qr_data]

----------------------------------------------------------------------------
\* the patched methods as installed: each patch calls super first

setup(v, vals) ==
    CASE v = "order_company_data" -> setup_A(NewOrder, vals)
      [] v = "company_data" -> setup_B(NewOrder, vals)
      [] v = "both" -> setup_B(setup_A(NewOrder, vals), vals)

export_for_printing(v, this, base) ==
    LET c == [threw |-> FALSE, value |-> base]
    IN CASE v = "order_company_data" -> export_for_printing_A(this, c)
         [] v = "company_data" -> export_for_printing_B(this, c)
         [] v = "both" -> export_for_printing_B(this, export_for_printing_A(this, c))

----------------------------------------------------------------------------
\* pos_receipt_patch.js

\* variant of getReceiptHeaderData: the non_fiscal_qr_data assignment is missing
getReceiptHeaderData_NoQr(arg, this, data) ==
    IF arg = "order"
    THEN [data EXCEPT !.is_fiscal_order = Or(this.is_fiscal_order, False)]
    ELSE data

\* variant of getReceiptHeaderData: order.is_fiscal_order || true
getReceiptHeaderData_DefaultTrue(arg, this, data) ==
    IF arg = "order"
    THEN [data EXCEPT
            !.is_fiscal_order = Or(this.is_fiscal_order, True),
            !.non_fiscal_qr_data = Or(this.non_fiscal_qr_data, False)]
    ELSE data

\* arg is what the host passed as order; this is the order when arg = "order"
getReceiptHeaderData(arg, this, data) ==
    IF arg = "order"
    THEN [data EXCEPT
            !.is_fiscal_order = Or(this.is_fiscal_order, False),
            !.non_fiscal_qr_data = Or(this.non_fiscal_qr_data, False)]
    ELSE data

----------------------------------------------------------------------------
VARIABLES
    variant,      \* installed patches
    constructed,  \* setup has run
    vals,         \* the raw bag setup received
    order,        \* the order's custom fields
    baseExport,   \* the host's export, as it was before augmentation
    result,       \* the export returned by export_for_printing
    exportCalls,  \* augmentations applied to the current export object
    threw,        \* a call ended in a TypeError
    headerArg,    \* order argument of the last getReceiptHeaderData
    baseHeader,   \* the host's header data of that call
    header,       \* the header data returned
    headerCalls

vars == <<variant, constructed, vals, order, baseExport, result, exportCalls,
          threw, headerArg, baseHeader, header, headerCalls>>

Init ==
    /\ variant \in Variants
    /\ constructed = FALSE
    /\ vals = NewOrder
    /\ order = NewOrder
    /\ baseExport = NoExport
    /\ result = NoExport
    /\ exportCalls = 0
    /\ threw = FALSE
    /\ headerArg = "undefined"
    /\ baseHeader = NoData
    /\ header = NoData
    /\ headerCalls = 0

\* new PosOrder(vals): the order is constructed or loaded
Setup ==
    /\ ~constructed
    /\ \E v \in RawVals :
        /\ vals' = v
        /\ order' = setup(variant, v)
    /\ constructed' = TRUE
    /\ UNCHANGED <<variant, baseExport, result, exportCalls, threw,
                   headerArg, baseHeader, header, headerCalls>>

\* order.export_for_printing() on a fresh host export
ExportForPrinting ==
    /\ constructed
    /\ ~threw
    /\ exportCalls = 0
    /\ \E b \in HostExports :
        LET c == export_for_printing(variant, order, b)
        IN /\ baseExport' = b
           /\ result' = c.value
           /\ threw' = c.threw
    /\ exportCalls' = 1
    /\ UNCHANGED <<variant, constructed, vals, order,
                   headerArg, baseHeader, header, headerCalls>>

\* the augmentation applied once more to the same (already mutated) export object
ExportAgain ==
    /\ constructed
    /\ ~threw
    /\ exportCalls >= 1
    /\ exportCalls < MaxCalls
    /\ LET c == export_for_printing(variant, order, result)
       IN /\ result' = c.value
          /\ threw' = c.threw
    /\ exportCalls' = exportCalls + 1
    /\ UNCHANGED <<variant, constructed, vals, order, baseExport,
                   headerArg, baseHeader, header, headerCalls>>

\* pos.getReceiptHeaderData(order), order possibly missing
GetReceiptHeaderData ==
    /\ constructed
    /\ ~threw
    /\ headerCalls < MaxCalls
    /\ \E a \in OrderArgs, d \in HostHeaderData :
        /\ headerArg' = a
        /\ baseHeader' = d
        /\ header' = getReceiptHeaderData(a, order, d)
    /\ headerCalls' = headerCalls + 1
    /\ UNCHANGED <<variant, constructed, vals, order, baseExport, result,
                   exportCalls, threw>>

Next ==
    \/ Setup
    \/ ExportForPrinting
    \/ ExportAgain
    \/ GetReceiptHeaderData

Spec == Init /\ [][Next]_vars

----------------------------------------------------------------------------
\* Properties

\* the company override the installed patches read from the order
\* (with both patches the company_data one runs last)
Override ==
    CASE variant = "order_company_data" -> order.order_company_data
      [] variant = "company_data" -> order.company_data
      [] variant = "both" -> IF Truthy(order.company_data)
                             THEN order.company_data
                             ELSE order.order_company_data

NoOverride ==
    CASE variant = "order_company_data" -> order.order_company_data = False
      [] variant = "company_data" -> order.company_data = False
      [] variant = "both" -> order.company_data = False /\ order.order_company_data = False

\* C1 (as stated): after every getReceiptHeaderData call, whatever the order
\* argument, the returned header data has is_fiscal_order and
\* non_fiscal_qr_data defined.
C1_AlwaysSet ==
    headerCalls > 0 =>
        /\ header.is_fiscal_order # Undefined
        /\ header.non_fiscal_qr_data # Undefined

\* C1 (amended): after every getReceiptHeaderData call whose order argument is
\* an order (truthy), the returned header data has is_fiscal_order and
\* non_fiscal_qr_data defined, as order.<field> || false, whether or not
\* export_for_printing ran before.
C1_SetWhenOrderGiven ==
    (headerCalls > 0 /\ headerArg = "order") =>
        /\ header.is_fiscal_order # Undefined
        /\ header.non_fiscal_qr_data # Undefined
        /\ header.is_fiscal_order = Or(order.is_fiscal_order, False)
        /\ header.non_fiscal_qr_data = Or(order.non_fiscal_qr_data, False)

C1_Witness ==
    /\ headerCalls > 0
    /\ headerArg = "order"
    /\ exportCalls = 0
    /\ header.non_fiscal_qr_data = QR123
    /\ header.is_fiscal_order = True

\* C2: after setup on a raw bag that lacks is_fiscal_order the order's
\* is_fiscal_order is true; a missing non_fiscal_qr_data and a missing company
\* override are stored as false.
C2_DefaultsApplied ==
    constructed =>
        /\ vals.is_fiscal_order = Undefined => order.is_fiscal_order = True
        /\ vals.non_fiscal_qr_data = Undefined => order.non_fiscal_qr_data = False
        /\ (variant # "order_company_data" /\ vals.company_data = Undefined)
               => order.company_data = False
        /\ (variant # "company_data" /\ vals.order_company_data = Undefined)
               => order.order_company_data = False

C2_Witness ==
    /\ constructed
    /\ variant = "company_data"
    /\ vals = NewOrder
    /\ order.is_fiscal_order = True
    /\ order.non_fiscal_qr_data = False
    /\ order.company_data = False

\* C3: a raw is_fiscal_order of false is stored as false, and a later
\* export_for_printing publishes false together with the order's
\* non_fiscal_qr_data.
C3_ExplicitFalseKept ==
    (constructed /\ vals.is_fiscal_order = False) =>
        /\ order.is_fiscal_order = False
        /\ exportCalls > 0 =>
              /\ result.is_fiscal_order = False
              /\ result.non_fiscal_qr_data = order.non_fiscal_qr_data

C3_Witness ==
    /\ exportCalls > 0
    /\ vals.is_fiscal_order = False
    /\ vals.non_fiscal_qr_data = QR123
    /\ result.is_fiscal_order = False
    /\ result.non_fiscal_qr_data = QR123

\* C4: when the order's company override is set and the host's export has a
\* headerData, the returned headerData.company is exactly the override.
C4_CompanyReplaced ==
    (exportCalls > 0 /\ baseExport.headerData.kind = "object" /\ Truthy(Override)) =>
        result.headerData.company = Override

C4_Witness ==
    /\ exportCalls > 0
    /\ baseExport.headerData.company = OldCo
    /\ order.company_data = NewCo
    /\ result.headerData.company = NewCo

\* C5: with no company override on the order, export_for_printing leaves
\* headerData.company as the host provided it.
C5_CompanyKept ==
    (exportCalls > 0 /\ NoOverride) =>
        result.headerData.company = baseExport.headerData.company

C5_Witness ==
    /\ exportCalls > 0
    /\ NoOverride
    /\ baseExport.headerData.company = OldCo
    /\ result.headerData.company = OldCo
    /\ result.non_fiscal_qr_data = QR123

\* C6: every host field other than headerData.company keeps its host value
\* through export_for_printing and through getReceiptHeaderData.
C6_HostFieldsKept ==
    /\ exportCalls > 0 =>
          /\ result.name = baseExport.name
          /\ result.headerData.kind = baseExport.headerData.kind
          /\ result.headerData.cashier = baseExport.headerData.cashier
          /\ result.headerData.is_fiscal_order = baseExport.headerData.is_fiscal_order
          /\ result.headerData.non_fiscal_qr_data = baseExport.headerData.non_fiscal_qr_data
    /\ headerCalls > 0 =>
          /\ header.kind = baseHeader.kind
          /\ header.company = baseHeader.company
          /\ header.cashier = baseHeader.cashier

C6_Witness ==
    /\ exportCalls > 0
    /\ headerCalls > 0
    /\ headerArg = "order"
    /\ baseExport.headerData.company = OldCo
    /\ result.headerData.company # OldCo
    /\ result.headerData.cashier = <<"string", "Ann">>
    /\ header.cashier = <<"string", "Ann">>

\* C7: the export after two augmentations of the same export object equals
\* the export after one, and the order's fields stay as setup left them.
C7_Idempotent ==
    /\ constructed => order = setup(variant, vals)
    /\ exportCalls >= 2 =>
          /\ ~threw
          /\ result = export_for_printing(variant, order, baseExport).value

C7_Witness ==
    /\ exportCalls >= 2
    /\ Truthy(Override)
    /\ baseExport.headerData.company = OldCo
    /\ result.non_fiscal_qr_data = QR123

\* C8: when the host's export has no headerData, export_for_printing does not
\* fail, creates no headerData, and still sets is_fiscal_order and
\* non_fiscal_qr_data.
C8_MissingHeaderSkipped ==
    (exportCalls > 0 /\ baseExport.headerData.kind # "object") =>
        /\ ~threw
        /\ result.headerData = baseExport.headerData
        /\ result.is_fiscal_order = order.is_fiscal_order
        /\ result.non_fiscal_qr_data = order.non_fiscal_qr_data

C8_Witness ==
    /\ exportCalls > 0
    /\ baseExport.headerData.kind = "undefined"
    /\ Truthy(Override)
    /\ ~threw
    /\ result.headerData.kind = "undefined"
    /\ result.is_fiscal_order = True

\* C9: the two setup variants store the same is_fiscal_order unless the raw
\* value is null, where the first stores null and the second true; with both
\* patches installed the second one's value is on the order.
C9_VariantsAgreeButNull ==
    constructed =>
        LET a == setup_A(NewOrder, vals).is_fiscal_order
            b == setup_B(NewOrder, vals).is_fiscal_order
        IN /\ vals.is_fiscal_order # Null => a = b
           /\ vals.is_fiscal_order = Null => (a = Null /\ b = True)
           /\ variant = "order_company_data" => order.is_fiscal_order = a
           /\ variant # "order_company_data" => order.is_fiscal_order = b

C9_Witness ==
    /\ constructed
    /\ variant = "both"
    /\ vals.is_fiscal_order = Null
    /\ order.is_fiscal_order = True

\* C10 (as stated): once both have been called on the order, the header data
\* and the print export carry equal is_fiscal_order and equal
\* non_fiscal_qr_data.
C10_SameValues ==
    (exportCalls > 0 /\ headerCalls > 0 /\ headerArg = "order") =>
        /\ header.is_fiscal_order = result.is_fiscal_order
        /\ header.non_fiscal_qr_data = result.non_fiscal_qr_data

\* C10 (amended): the two carry equal non_fiscal_qr_data and is_fiscal_order
\* values of equal truthiness, and equal is_fiscal_order whenever the order's
\* stored is_fiscal_order is a boolean.
C10_SameTruthiness ==
    (exportCalls > 0 /\ headerCalls > 0 /\ headerArg = "order") =>
        /\ header.non_fiscal_qr_data = result.non_fiscal_qr_data
        /\ Truthy(header.is_fiscal_order) = Truthy(result.is_fiscal_order)
        /\ IsBoolean(order.is_fiscal_order) =>
               header.is_fiscal_order = result.is_fiscal_order

C10_Witness ==
    /\ exportCalls > 0
    /\ headerCalls > 0
    /\ headerArg = "order"
    /\ order.is_fiscal_order = False
    /\ header.is_fiscal_order = False
    /\ result.non_fiscal_qr_data = QR123
    /\ header.non_fiscal_qr_data = QR123

====
